---------------------------- MODULE Spec2Model ----------------------------
(***************************************************************************)
(* MCPDeploymentModel (src/model.py) and MCPModelPredictor                 *)
(* (src/predictor.py): repository classification, deployment-configuration *)
(* synthesis, resource sizing and the predict request handler.             *)
(*                                                                         *)
(* Text that the code inspects character by character (file names,         *)
(* indicators, start commands, repository paths) is a sequence of          *)
(* one-character strings; text that is only copied around is a string.     *)
(***************************************************************************)
EXTENDS Integers, Sequences, FiniteSets, TLC

VARIABLES
    deployment_patterns,  \* self.deployment_patterns (model.py:23)
    github_client,        \* self.github_client (model.py:21,32)
    remote_repo,          \* the repository the GitHub collaborator serves
    file_structure,       \* argument of _detect_application_type
    detected,             \* its return value
    synth_calls,          \* the latest generate_deployment_config call made
                          \* on the instance (arguments, what it returned or
                          \* raised), preceded by the call before it when
                          \* that one had the same arguments
    pc,                   \* where the predict call in progress stands
    request_data,         \* its argument
    analysis_result,      \* analyze_repository's locals, then its result
    deployment_config,    \* predict's deployment_config
    invoked,              \* collaborator operations of this predict call
    response              \* what predict returned

synthVars == <<file_structure, detected, synth_calls>>

predictVars == <<pc, request_data, analysis_result, deployment_config, invoked,
                 response>>

vars == <<deployment_patterns, github_client, remote_repo, file_structure,
          detected,
          synth_calls, pc, request_data, analysis_result, deployment_config,
          invoked, response>>

(***************************************************************************)
(* Python str helpers over character sequences.                            *)
(***************************************************************************)
UpperCase == <<"A","B","C","D","E","F","G","H","I","J","K","L","M",
               "N","O","P","Q","R","S","T","U","V","W","X","Y","Z">>

LowerCase == <<"a","b","c","d","e","f","g","h","i","j","k","l","m",
               "n","o","p","q","r","s","t","u","v","w","x","y","z">>

\* str.lower() on one character
LowerChar(c) ==
    IF \E i \in 1..Len(UpperCase) : UpperCase[i] = c
    THEN LowerCase[CHOOSE i \in 1..Len(UpperCase) : UpperCase[i] = c]
    ELSE c

\* str.lower()
Lower(s) == [i \in 1..Len(s) |-> LowerChar(s[i])]

\* `sub in s` for str
Contains(sub, s) ==
    \E i \in 0..(Len(s) - Len(sub)) : SubSeq(s, i + 1, i + Len(sub)) = sub

\* dict.get(key, default) on a record
Get(d, key, default) == IF key \in DOMAIN d THEN d[key] ELSE default

(***************************************************************************)
(* More str helpers.                                                       *)
(***************************************************************************)
RECURSIVE SplitWords(_, _, _)
SplitWords(s, cur, out) ==
    IF s = <<>> THEN (IF cur = <<>> THEN out ELSE Append(out, cur))
    ELSE IF Head(s) = " "
    THEN SplitWords(Tail(s), <<>>, IF cur = <<>> THEN out ELSE Append(out, cur))
    ELSE SplitWords(Tail(s), Append(cur, Head(s)), out)

\* str.split(): the whitespace-separated words
Split(s) == SplitWords(s, <<>>, <<>>)

RECURSIVE SplitSepFrom(_, _, _, _)
SplitSepFrom(s, sep, cur, out) ==
    IF s = <<>> THEN Append(out, cur)
    ELSE IF Head(s) = sep THEN SplitSepFrom(Tail(s), sep, <<>>, Append(out, cur))
    ELSE SplitSepFrom(Tail(s), sep, Append(cur, Head(s)), out)

\* str.split(sep) for a one-character separator: empty parts are kept
SplitSep(s, sep) == SplitSepFrom(s, sep, <<>>, <<>>)

RECURSIVE Replace(_, _, _)
\* str.replace(old, new): every non-overlapping occurrence, left to right
Replace(s, old, new) ==
    IF Len(s) < Len(old) \/ old = <<>> THEN s
    ELSE IF SubSeq(s, 1, Len(old)) = old
    THEN new \o Replace(SubSeq(s, Len(old) + 1, Len(s)), old, new)
    ELSE <<Head(s)>> \o Replace(Tail(s), old, new)

RECURSIVE Join(_, _)
\* sep.join(words)
Join(sep, words) ==
    IF words = <<>> THEN <<>>
    ELSE IF Len(words) = 1 THEN Head(words)
    ELSE Head(words) \o sep \o Join(sep, Tail(words))

Digits == <<"0", "1", "2", "3", "4", "5", "6", "7", "8", "9">>

RECURSIVE Str(_)
\* str(n) for n >= 0
Str(n) == IF n < 10 THEN Digits[n + 1]
          ELSE Str(n \div 10) \o Digits[(n % 10) + 1]

\* Python None and a present value, for a field that is either
None == <<>>
Some(x) == <<x>>

(***************************************************************************)
(* Resource quantities: a value and its unit suffix ("100m" is             *)
(* [value |-> 100, unit |-> "m"]).                                         *)
(***************************************************************************)
Q(value, unit) == [value |-> value, unit |-> unit]

\* the amount a quantity denotes: CPU in millicores, memory in Mi
Amount(q) ==
    CASE q.unit = "m" -> q.value
      [] q.unit = "Mi" -> q.value
      [] q.unit = "Gi" -> q.value * 1024

\* the default profile of pattern.get('resources', {...})
DefaultResources ==
    [requests |-> [cpu |-> Q(100, "m"), memory |-> Q(128, "Mi")],
     limits |-> [cpu |-> Q(500, "m"), memory |-> Q(512, "Mi")]]

\* the literal of the "Special handling for ML workloads"
MLResources ==
    [requests |-> [cpu |-> Q(500, "m"), memory |-> Q(1, "Gi")],
     limits |-> [cpu |-> Q(2000, "m"), memory |-> Q(4, "Gi")]]

(***************************************************************************)
(* _load_deployment_patterns: the literal table, in registration order.    *)
(***************************************************************************)
Pattern_node_js ==
    [indicators |-> <<
         <<"p","a","c","k","a","g","e",".","j","s","o","n">>,   \* "package.json"
         <<"n","o","d","e","_","m","o","d","u","l","e","s">>,   \* "node_modules"
         <<"a","p","p",".","j","s">>,   \* "app.js"
         <<"s","e","r","v","e","r",".","j","s">>   \* "server.js"
     >>,
     port |-> 3000,
     health_path |-> "/health",
     base_image |-> "node:18-alpine",
     build_command |-> "npm install && npm run build",
     \* start_command: "npm start"
     start_command |->
         <<"n","p","m"," ","s","t","a","r","t">>]

Pattern_python_flask ==
    [indicators |-> <<
         <<"r","e","q","u","i","r","e","m","e","n","t","s",".","t","x","t">>,   \* "requirements.txt"
         <<"a","p","p",".","p","y">>,   \* "app.py"
         <<"w","s","g","i",".","p","y">>,   \* "wsgi.py"
         <<"f","l","a","s","k">>   \* "flask"
     >>,
     port |-> 5000,
     health_path |-> "/health",
     base_image |-> "python:3.11-slim",
     build_command |-> "pip install -r requirements.txt",
     \* start_command: "python app.py"
     start_command |->
         <<"p","y","t","h","o","n"," ","a","p","p",".","p","y">>]

Pattern_python_django ==
    [indicators |-> <<
         <<"r","e","q","u","i","r","e","m","e","n","t","s",".","t","x","t">>,   \* "requirements.txt"
         <<"m","a","n","a","g","e",".","p","y">>,   \* "manage.py"
         <<"s","e","t","t","i","n","g","s",".","p","y">>,   \* "settings.py"
         <<"d","j","a","n","g","o">>   \* "django"
     >>,
     port |-> 8000,
     health_path |-> "/health/",
     base_image |-> "python:3.11-slim",
     build_command |-> "pip install -r requirements.txt && python manage.py collectstatic --noinput",
     \* start_command: "python manage.py runserver 0.0.0.0:8000"
     start_command |->
         <<"p","y","t","h","o","n"," ","m","a","n","a","g","e",".","p","y"," ","r","u","n","s","e","r","v","e","r"," ","0",".","0",".","0",".","0",":","8","0","0","0">>]

Pattern_java_spring ==
    [indicators |-> <<
         <<"p","o","m",".","x","m","l">>,   \* "pom.xml"
         <<"b","u","i","l","d",".","g","r","a","d","l","e">>,   \* "build.gradle"
         <<"s","r","c","/","m","a","i","n","/","j","a","v","a">>,   \* "src/main/java"
         <<"s","p","r","i","n","g">>   \* "spring"
     >>,
     port |-> 8080,
     health_path |-> "/actuator/health",
     base_image |-> "openjdk:17-jre-slim",
     build_command |-> "mvn clean package -DskipTests",
     \* start_command: "java -jar target/*.jar"
     start_command |->
         <<"j","a","v","a"," ","-","j","a","r"," ","t","a","r","g","e","t","/","*",".","j","a","r">>]

Pattern_go ==
    [indicators |-> <<
         <<"g","o",".","m","o","d">>,   \* "go.mod"
         <<"m","a","i","n",".","g","o">>,   \* "main.go"
         <<"*",".","g","o">>   \* "*.go"
     >>,
     port |-> 8080,
     health_path |-> "/health",
     base_image |-> "golang:1.21-alpine",
     build_command |-> "go mod download && go build -o app .",
     \* start_command: "./app"
     start_command |->
         <<".","/","a","p","p">>]

Pattern_react ==
    [indicators |-> <<
         <<"p","a","c","k","a","g","e",".","j","s","o","n">>,   \* "package.json"
         <<"s","r","c","/","A","p","p",".","j","s">>,   \* "src/App.js"
         <<"p","u","b","l","i","c","/","i","n","d","e","x",".","h","t","m","l">>,   \* "public/index.html"
         <<"r","e","a","c","t">>   \* "react"
     >>,
     port |-> 80,
     health_path |-> "/",
     base_image |-> "nginx:alpine",
     build_command |-> "npm install && npm run build",
     \* start_command: "nginx -g 'daemon off;'"
     start_command |->
         <<"n","g","i","n","x"," ","-","g"," ","'","d","a","e","m","o","n"," ","o","f","f",";","'">>,
     static_site |-> TRUE]

Pattern_machine_learning ==
    [indicators |-> <<
         <<"r","e","q","u","i","r","e","m","e","n","t","s",".","t","x","t">>,   \* "requirements.txt"
         <<"m","o","d","e","l",".","p","k","l">>,   \* "model.pkl"
         <<"*",".","i","p","y","n","b">>,   \* "*.ipynb"
         <<"t","e","n","s","o","r","f","l","o","w">>,   \* "tensorflow"
         <<"p","y","t","o","r","c","h">>,   \* "pytorch"
         <<"s","c","i","k","i","t","-","l","e","a","r","n">>   \* "scikit-learn"
     >>,
     port |-> 8000,
     health_path |-> "/health",
     base_image |-> "python:3.11-slim",
     build_command |-> "pip install -r requirements.txt",
     \* start_command: "python serve.py"
     start_command |->
         <<"p","y","t","h","o","n"," ","s","e","r","v","e",".","p","y">>,
     resources |-> [requests |-> [cpu |-> Q(500, "m"), memory |-> Q(1, "Gi")],
                      limits |-> [cpu |-> Q(2000, "m"), memory |-> Q(4, "Gi")]]]


\* dict iteration order of deployment_patterns (insertion order)
PatternOrder ==
    <<"node_js", "python_flask", "python_django", "java_spring", "go",
      "react", "machine_learning">>

LoadDeploymentPatterns ==
    [id \in {PatternOrder[i] : i \in 1..Len(PatternOrder)} |->
        CASE id = "node_js" -> Pattern_node_js
          [] id = "python_flask" -> Pattern_python_flask
          [] id = "python_django" -> Pattern_python_django
          [] id = "java_spring" -> Pattern_java_spring
          [] id = "go" -> Pattern_go
          [] id = "react" -> Pattern_react
          [] id = "machine_learning" -> Pattern_machine_learning]

(***************************************************************************)
(* _get_all_files and _detect_application_type.                            *)
(* A structure node is a record; `directories` is the dict as a sequence   *)
(* of [name, node] items in insertion order.  The depth-cap node {} is     *)
(* the empty function <<>>.                                                *)
(***************************************************************************)
RECURSIVE GetAllFiles(_, _)
RECURSIVE GetAllFilesOfDirs(_, _)

\* the loop over structure.get('directories', {}).values()
GetAllFilesOfDirs(dirs, files) ==
    IF dirs = <<>> THEN files
    ELSE GetAllFilesOfDirs(Tail(dirs), GetAllFiles(Head(dirs).node, files))

GetAllFiles(structure, files) ==
    GetAllFilesOfDirs(Get(structure, "directories", <<>>),
                      files \o Get(structure, "files", <<>>))

RECURSIVE CountIndicators(_, _)
\* the inner loop: score += 1 for each indicator found in some file name
CountIndicators(indicators, all_files) ==
    IF indicators = <<>> THEN 0
    ELSE (IF \E k \in 1..Len(all_files) :
                 Contains(Lower(Head(indicators)), Lower(all_files[k]))
          THEN 1 ELSE 0)
         + CountIndicators(Tail(indicators), all_files)

\* scores.items(): one (app_type, score) per catalog entry, in dict order
ScoreItems(all_files) ==
    [i \in 1..Len(PatternOrder) |->
        [app_type |-> PatternOrder[i],
         score |-> CountIndicators(
                       deployment_patterns[PatternOrder[i]].indicators,
                       all_files)]]

RECURSIVE PyMaxLast(_, _)
\* PyMax keeping the last item with the largest key instead of the first
PyMaxLast(best, items) ==
    IF items = <<>> THEN best
    ELSE PyMaxLast(IF Head(items).score >= best.score THEN Head(items) ELSE best,
                   Tail(items))

RECURSIVE PyMax(_, _)
\* max(items, key=score): the first item encountered with the largest key
PyMax(best, items) ==
    IF items = <<>> THEN best
    ELSE PyMax(IF Head(items).score > best.score THEN Head(items) ELSE best,
               Tail(items))

DetectApplicationType(structure) ==
    LET all_files == GetAllFiles(structure, <<>>)
        scores == ScoreItems(all_files)
    IN  IF Len(scores) > 0
        THEN LET best_match == PyMax(Head(scores), Tail(scores))
             IN  IF best_match.score > 0 THEN best_match.app_type
                 ELSE "generic"
        ELSE "generic"

(***************************************************************************)
(* The repository as the GitHub collaborator presents it: `listing` maps   *)
(* a path to the entries get_contents returns for it, `inaccessible` are   *)
(* the paths for which get_contents raises.                                *)
(***************************************************************************)
\* repo.get_contents(path, ref=branch) for a directory
GetContents(repo, path, ref) ==
    IF path \in repo.inaccessible \/ path \notin DOMAIN repo.listing
    THEN [raised |-> TRUE]
    ELSE [raised |-> FALSE, value |-> repo.listing[path]]

\* key_files of _is_key_file
KeyFileNames ==
    <<
      <<"p","a","c","k","a","g","e",".","j","s","o","n">>,   \* 'package.json'
      <<"r","e","q","u","i","r","e","m","e","n","t","s",".","t","x","t">>,   \* 'requirements.txt'
      <<"p","o","m",".","x","m","l">>,   \* 'pom.xml'
      <<"b","u","i","l","d",".","g","r","a","d","l","e">>,   \* 'build.gradle'
      <<"g","o",".","m","o","d">>,   \* 'go.mod'
      <<"D","o","c","k","e","r","f","i","l","e">>,   \* 'Dockerfile'
      <<"d","o","c","k","e","r","-","c","o","m","p","o","s","e",".","y","m","l">>,   \* 'docker-compose.yml'
      <<"k","u","b","e","r","n","e","t","e","s",".","y","a","m","l">>,   \* 'kubernetes.yaml'
      <<"d","e","p","l","o","y","m","e","n","t",".","y","a","m","l">>,   \* 'deployment.yaml'
      <<".","g","i","t","h","u","b">>,   \* '.github'
      <<"R","E","A","D","M","E",".","m","d">>,   \* 'README.md'
      <<"a","p","p",".","p","y">>,   \* 'app.py'
      <<"m","a","i","n",".","p","y">>,   \* 'main.py'
      <<"s","e","r","v","e","r",".","j","s">>,   \* 'server.js'
      <<"a","p","p",".","j","s">>,   \* 'app.js'
      <<"i","n","d","e","x",".","j","s">>,   \* 'index.js'
      <<"m","a","n","a","g","e",".","p","y">>   \* 'manage.py'
    >>

\* _is_key_file: any(key in filename.lower() for key in key_files)
IsKeyFile(filename) ==
    \E i \in 1..Len(KeyFileNames) : Contains(KeyFileNames[i], Lower(filename))

\* d[key] = value on a dict held as a sequence of [name, node] items
DictSet(d, key, value) ==
    IF \E i \in 1..Len(d) : d[i].name = key
    THEN [i \in 1..Len(d) |->
             IF d[i].name = key THEN [name |-> key, node |-> value] ELSE d[i]]
    ELSE Append(d, [name |-> key, node |-> value])

\* max_depth=3, the default of _analyze_file_structure
max_depth == 3

RECURSIVE AnalyzeFileStructure(_, _, _, _, _)
RECURSIVE AnalyzeContents(_, _, _, _, _, _)
RECURSIVE AnalyzeContentsAbort(_, _, _, _, _, _)
RECURSIVE AnalyzeContentsOneDeeper(_, _, _, _, _, _)

\* AnalyzeContents with a failed listing ending the loop over the parent
AnalyzeContentsAbort(contents, acc, repo, branch, depth_cap, current_depth) ==
    IF contents = <<>> THEN acc
    ELSE
      LET content == Head(contents)
          s == acc.structure
          next ==
            IF content.type = "file"
            THEN [acc EXCEPT
                    !.structure.files = Append(s.files, content.name),
                    !.structure.key_files =
                        IF IsKeyFile(content.name)
                        THEN Append(s.key_files,
                                    [name |-> content.name,
                                     path |-> content.path,
                                     size |-> content.size])
                        ELSE s.key_files]
            ELSE IF content.type = "dir" /\ current_depth < depth_cap - 1
            THEN
              LET subcontents == GetContents(repo, content.path, branch)
                  fetched == Append(acc.fetched, content.path)
              IN  IF subcontents.raised
                  THEN [structure |->
                           [s EXCEPT !.directories =
                               DictSet(s.directories, content.name,
                                       [error |-> "Cannot access"])],
                        fetched |-> fetched]
                  ELSE
                    LET sub == AnalyzeFileStructure(
                                   subcontents.value, repo, branch,
                                   depth_cap, current_depth + 1)
                    IN  [structure |->
                            [s EXCEPT !.directories =
                                DictSet(s.directories, content.name,
                                        sub.structure)],
                         fetched |-> fetched \o sub.fetched]
            ELSE acc
          failed == /\ content.type = "dir"
                    /\ current_depth < depth_cap - 1
                    /\ GetContents(repo, content.path, branch).raised
      IN  IF failed THEN next
          ELSE AnalyzeContentsAbort(Tail(contents), next, repo, branch,
                                    depth_cap, current_depth)

\* AnalyzeContents expanding directories one level further
AnalyzeContentsOneDeeper(contents, acc, repo, branch, depth_cap, current_depth) ==
    IF contents = <<>> THEN acc
    ELSE
      LET content == Head(contents)
          s == acc.structure
          next ==
            IF content.type = "file"
            THEN [acc EXCEPT
                    !.structure.files = Append(s.files, content.name),
                    !.structure.key_files =
                        IF IsKeyFile(content.name)
                        THEN Append(s.key_files,
                                    [name |-> content.name,
                                     path |-> content.path,
                                     size |-> content.size])
                        ELSE s.key_files]
            ELSE IF content.type = "dir" /\ current_depth < depth_cap
            THEN
              LET subcontents == GetContents(repo, content.path, branch)
                  fetched == Append(acc.fetched, content.path)
              IN  IF subcontents.raised
                  THEN [structure |->
                           [s EXCEPT !.directories =
                               DictSet(s.directories, content.name,
                                       [error |-> "Cannot access"])],
                        fetched |-> fetched]
                  ELSE
                    LET sub == AnalyzeFileStructure(
                                   subcontents.value, repo, branch,
                                   depth_cap, current_depth + 1)
                    IN  [structure |->
                            [s EXCEPT !.directories =
                                DictSet(s.directories, content.name,
                                        sub.structure)],
                         fetched |-> fetched \o sub.fetched]
            ELSE acc
      IN  AnalyzeContentsOneDeeper(Tail(contents), next, repo, branch, depth_cap,
                          current_depth)

\* the `for content in contents` loop; acc = [structure, fetched]
AnalyzeContents(contents, acc, repo, branch, depth_cap, current_depth) ==
    IF contents = <<>> THEN acc
    ELSE
      LET content == Head(contents)
          s == acc.structure
          next ==
            IF content.type = "file"
            THEN [acc EXCEPT
                    !.structure.files = Append(s.files, content.name),
                    !.structure.key_files =
                        IF IsKeyFile(content.name)
                        THEN Append(s.key_files,
                                    [name |-> content.name,
                                     path |-> content.path,
                                     size |-> content.size])
                        ELSE s.key_files]
            ELSE IF content.type = "dir" /\ current_depth < depth_cap - 1
            THEN
              LET subcontents == GetContents(repo, content.path, branch)
                  fetched == Append(acc.fetched, content.path)
              IN  IF subcontents.raised
                  THEN [structure |->
                           [s EXCEPT !.directories =
                               DictSet(s.directories, content.name,
                                       [error |-> "Cannot access"])],
                        fetched |-> fetched]
                  ELSE
                    LET sub == AnalyzeFileStructure(
                                   subcontents.value, repo, branch,
                                   depth_cap, current_depth + 1)
                    IN  [structure |->
                            [s EXCEPT !.directories =
                                DictSet(s.directories, content.name,
                                        sub.structure)],
                         fetched |-> fetched \o sub.fetched]
            ELSE acc
      IN  AnalyzeContents(Tail(contents), next, repo, branch, depth_cap,
                          current_depth)

\* _analyze_file_structure; returns the structure and, in `fetched`, the
\* paths whose listing it asked the collaborator for, in call order
AnalyzeFileStructure(contents, repo, branch, depth_cap, current_depth) ==
    IF current_depth >= depth_cap
    THEN [structure |-> <<>>, fetched |-> <<>>]
    ELSE AnalyzeContents(
             contents,
             [structure |-> [files |-> <<>>, directories |-> <<>>,
                             key_files |-> <<>>],
              fetched |-> <<>>],
             repo, branch, depth_cap, current_depth)

\* the files the sub-steps of analyze_repository read
\* "package.json"
PackageJsonPath == <<"p","a","c","k","a","g","e",".","j","s","o","n">>
\* "requirements.txt"
RequirementsTxtPath == <<"r","e","q","u","i","r","e","m","e","n","t","s",".","t","x","t">>
\* "Pipfile"
PipfilePath == <<"P","i","p","f","i","l","e">>
\* "pom.xml"
PomXmlPath == <<"p","o","m",".","x","m","l">>
\* "build.gradle"
BuildGradlePath == <<"b","u","i","l","d",".","g","r","a","d","l","e">>
\* "go.mod"
GoModPath == <<"g","o",".","m","o","d">>
\* "Dockerfile"
DockerfilePath == <<"D","o","c","k","e","r","f","i","l","e">>

(***************************************************************************)
(* Repositories the checks draw from.                                      *)
(***************************************************************************)
\* "server.js"
ServerJs == <<"s","e","r","v","e","r",".","j","s">>
\* "App.js"
AppJsUpper == <<"A","p","p",".","j","s">>
\* "manage.py"
ManagePy == <<"m","a","n","a","g","e",".","p","y">>
\* "app.py"
AppPy == <<"a","p","p",".","p","y">>
\* "main.go"
MainGo == <<"m","a","i","n",".","g","o">>
\* "MODEL.PKL"
ModelPklUpper == <<"M","O","D","E","L",".","P","K","L">>
\* "README.md"
ReadmeMd == <<"R","E","A","D","M","E",".","m","d">>

FileNames ==
    {PackageJsonPath, ServerJs, AppJsUpper, RequirementsTxtPath, ManagePy,
     AppPy, MainGo, GoModPath, ModelPklUpper, PomXmlPath, ReadmeMd,
     DockerfilePath}

\* largest number of files in one directory listing
MaxFiles == 2

SeqsUpTo(S, n) == UNION {[1..k -> S] : k \in 0..n}

FileEntry(parent, name) ==
    [type |-> "file", name |-> name,
     path |-> IF parent = <<>> THEN name ELSE parent \o <<"/">> \o name,
     size |-> Len(name)]

DirEntry(parent, name) ==
    [type |-> "dir", name |-> name,
     path |-> IF parent = <<>> THEN name ELSE parent \o <<"/">> \o name]

FileEntries(parent, names) ==
    [i \in 1..Len(names) |-> FileEntry(parent, names[i])]

SrcDir == <<"s","r","c">>

\* a repository with files at the root only
FlatRepo(rootFiles) ==
    [listing |-> (<<>> :> FileEntries(<<>>, rootFiles)), inaccessible |-> {}]

\* a repository with a directory src listed first at the root
NestedRepo(rootFiles, srcFiles, srcOk) ==
    [listing |-> (<<>> :> (<<DirEntry(<<>>, SrcDir)>>
                           \o FileEntries(<<>>, rootFiles)))
                 @@ (SrcDir :> FileEntries(SrcDir, srcFiles)),
     inaccessible |-> IF srcOk THEN {} ELSE {SrcDir}]

ClassifyRepos ==
    {FlatRepo(f) : f \in SeqsUpTo(FileNames, MaxFiles)}
    \cup {NestedRepo(f, g, ok) : f \in SeqsUpTo(FileNames, 1),
                                 g \in SeqsUpTo(FileNames, 1),
                                 ok \in BOOLEAN}

\* the chain of nested directories a, a/c, a/c/d, ...
ChainNames == <<<<"a">>, <<"c">>, <<"d">>, <<"e">>, <<"f">>, <<"g">>>>

RECURSIVE ChainPath(_)
\* the path of the k-th directory of the chain
ChainPath(k) ==
    IF k = 1 THEN ChainNames[1]
    ELSE ChainPath(k - 1) \o <<"/">> \o ChainNames[k]

\* the file that sits in the root (index 1) and in the k-th chain directory
\* (index k + 1)
ChainFiles == <<ServerJs, PackageJsonPath, AppPy, ManagePy, GoModPath,
                PomXmlPath, MainGo>>

\* a directory b beside the chain, at the root
SideDir == <<"b">>

\* deepest chain of directories in a drawn repository
MaxChain == 4

\* the orders in which the root lists the chain, its file and the side directory
RootOrders ==
    {<<"chain", "file", "side">>, <<"chain", "side", "file">>,
     <<"file", "chain", "side">>, <<"file", "side", "chain">>,
     <<"side", "chain", "file">>, <<"side", "file", "chain">>}

\* a repository with a chain of `depth` nested directories, one file in each
\* directory, and the listings of the directories in `bad` failing
TreeRepo(depth, order, bad) ==
    LET parent(k) == IF k = 1 THEN <<>> ELSE ChainPath(k - 1)
        rootEntry(tag) ==
            IF tag = "chain" THEN DirEntry(<<>>, ChainNames[1])
            ELSE IF tag = "side" THEN DirEntry(<<>>, SideDir)
            ELSE FileEntry(<<>>, ChainFiles[1])
        chainListing(k) ==
            <<FileEntry(ChainPath(k), ChainFiles[k + 1])>>
            \o (IF k < depth
                THEN <<DirEntry(ChainPath(k), ChainNames[k + 1])>>
                ELSE <<>>)
    IN  [listing |->
            (<<>> :> [i \in 1..Len(order) |-> rootEntry(order[i])])
            @@ (SideDir :> <<FileEntry(SideDir, RequirementsTxtPath)>>)
            @@ [path \in {ChainPath(k) : k \in 1..depth} |->
                   chainListing(CHOOSE k \in 1..depth : ChainPath(k) = path)],
         inaccessible |-> bad]

TreeRepos ==
    UNION {{TreeRepo(depth, order, bad) :
               order \in RootOrders,
               bad \in SUBSET ({ChainPath(k) : k \in 1..depth} \cup {SideDir})} :
           depth \in 1..MaxChain}

(***************************************************************************)
(* ConfigSynthesizer: generate_deployment_config and its helpers.          *)
(* An operation that can raise returns [raised |-> TRUE, error |-> name]   *)
(* or [raised |-> FALSE, value |-> result].                                *)
(***************************************************************************)
Raise(e) == [raised |-> TRUE, error |-> e]
Return(v) == [raised |-> FALSE, value |-> v]

\* analysis['repository'].split('/')[-1].lower().replace('_', '-')
AppName(repository) ==
    LET parts == SplitSep(repository, "/")
    IN  Replace(Lower(parts[Len(parts)]), <<"_">>, <<"-">>)

\* the key of the catalog entry that
\* deployment_patterns.get(app_type, deployment_patterns['node_js']) returns
PatternKey(app_type, patterns) ==
    IF app_type \in DOMAIN patterns THEN app_type ELSE "node_js"

\* _generate_deployment_yaml
GenerateDeploymentYaml(analysis, pattern, app_name, namespace) ==
    LET resources ==
            IF analysis.application_type = "machine_learning"
            THEN MLResources
            ELSE Get(pattern, "resources", DefaultResources)
    IN  [apiVersion |-> "apps/v1",
         kind |-> "Deployment",
         metadata |->
            [name |-> app_name,
             namespace |-> namespace,
             labels |-> [app |-> app_name,
                         managed_by |-> "mcp-model-server",
                         app_type |-> analysis.application_type]],
         spec |->
            [replicas |-> 1,
             selector |-> [matchLabels |-> [app |-> app_name]],
             template |->
                [metadata |-> [labels |-> [app |-> app_name]],
                 spec |->
                    [containers |-> <<
                        [name |-> app_name,
                         image |-> [registry |-> "quay.io/your-org/",
                                    name |-> app_name, tag |-> "latest"],
                         ports |-> <<[containerPort |-> pattern.port,
                                      protocol |-> "TCP"]>>,
                         env |-> <<[name |-> "PORT",
                                    value |-> Str(pattern.port)],
                                   [name |-> "NODE_ENV",
                                    value |-> "production"]>>,
                         resources |-> resources,
                         readinessProbe |->
                            [httpGet |-> [path |-> pattern.health_path,
                                          port |-> pattern.port],
                             initialDelaySeconds |-> 10,
                             periodSeconds |-> 5],
                         livenessProbe |->
                            [httpGet |-> [path |-> pattern.health_path,
                                          port |-> pattern.port],
                             initialDelaySeconds |-> 30,
                             periodSeconds |-> 10]]>>]]]]

\* _generate_service_yaml forwarding to 8080 whatever the archetype
GenerateServiceYamlFixedPort(app_name, namespace, pattern) ==
    [apiVersion |-> "v1",
     kind |-> "Service",
     metadata |-> [name |-> app_name, namespace |-> namespace,
                   labels |-> [app |-> app_name]],
     spec |-> [selector |-> [app |-> app_name],
               ports |-> <<[port |-> 80, targetPort |-> 8080,
                            protocol |-> "TCP"]>>,
               type |-> "ClusterIP"]]

\* _generate_service_yaml
GenerateServiceYaml(app_name, namespace, pattern) ==
    [apiVersion |-> "v1",
     kind |-> "Service",
     metadata |-> [name |-> app_name, namespace |-> namespace,
                   labels |-> [app |-> app_name]],
     spec |-> [selector |-> [app |-> app_name],
               ports |-> <<[port |-> 80, targetPort |-> pattern.port,
                            protocol |-> "TCP"]>>,
               type |-> "ClusterIP"]]

\* _generate_route_yaml
GenerateRouteYaml(app_name, namespace) ==
    [apiVersion |-> "route.openshift.io/v1",
     kind |-> "Route",
     metadata |-> [name |-> app_name, namespace |-> namespace,
                   labels |-> [app |-> app_name]],
     spec |-> [to |-> [kind |-> "Service", name |-> app_name],
               port |-> [targetPort |-> 80],
               tls |-> [termination |-> "edge",
                        insecureEdgeTerminationPolicy |-> "Redirect"]]]

\* _generate_dockerfile.  The dict of the three f-string templates is built
\* in full before the lookup, so every subscript of start_command.split()
\* is evaluated whatever the archetype: [0] and [1] for node_js and
\* python_flask, [0] and the slice [1:] for react.  A template is held as
\* its name and the values interpolated into it.
GenerateDockerfile(analysis, pattern) ==
    LET app_type == analysis.application_type
        words == Split(pattern.start_command)
        two_word == [base_image |-> pattern.base_image,
                     build_command |-> pattern.build_command,
                     port |-> pattern.port,
                     cmd |-> <<words[1], words[2]>>]
        templates ==
            [node_js |-> [template |-> "node_js"] @@ two_word,
             python_flask |-> [template |-> "python_flask"] @@ two_word,
             react |-> [template |-> "react",
                        base_image |-> pattern.base_image,
                        port |-> pattern.port,
                        cmd |-> <<words[1],
                                  Join(<<" ">>, SubSeq(words, 2, Len(words)))>>]]
    IN  IF Len(words) < 2 THEN Raise("IndexError")
        ELSE Return(Get(templates, app_type, templates.node_js))

\* _generate_github_actions; the run script is held as the values
\* interpolated into it
GenerateGithubActions(analysis, app_name, namespace) ==
    [name |-> [text |-> "Deploy ", app_name |-> app_name],
     on |-> [push |-> [branches |-> <<"main">>], workflow_dispatch |-> <<>>],
     jobs |->
        [deploy |->
            [runs_on |-> "ubuntu-latest",
             steps |-> <<[uses |-> "actions/checkout@v4"],
                         [name |-> "Deploy via MCP Model",
                          run |-> [endpoint |-> "/v1/models/mcp-deployment:predict",
                                   namespace |-> namespace,
                                   deploy_immediately |-> TRUE]]>>]]]

\* repository byte size above which the memory rule fires
SizeThreshold == 100000
\* dependency count above which the CPU rule fires
DepsThreshold == 50

\* CalculateResources with the memory rule raising one tier further when
\* the profile it is given was already raised to 256Mi
CalculateResourcesStepwise(analysis, pattern_key, patterns) ==
    LET pattern == patterns[pattern_key]
        shared == "resources" \in DOMAIN pattern
        base_resources == Get(pattern, "resources", DefaultResources)
        sized ==
            IF Get(analysis, "size", 0) > SizeThreshold
            THEN [base_resources EXCEPT
                    !.requests.memory =
                        IF base_resources.requests.memory = Q(256, "Mi")
                        THEN Q(512, "Mi") ELSE Q(256, "Mi"),
                    !.limits.memory = Q(1, "Gi")]
            ELSE base_resources
        result ==
            IF Len(Get(Get(analysis, "dependencies", <<>>),
                       "dependencies", <<>>)) > DepsThreshold
            THEN [sized EXCEPT !.requests.cpu = Q(200, "m"),
                               !.limits.cpu = Q(1000, "m")]
            ELSE sized
    IN  [value |-> result,
         shared |-> shared,
         patterns |-> IF shared
                      THEN [patterns EXCEPT ![pattern_key].resources = result]
                      ELSE patterns]

\* _calculate_resources.  base_resources is the catalog entry's own
\* 'resources' dict when the entry has one (no copy is taken) and a fresh
\* default dict otherwise; the two rules assign into it.  Returns the
\* estimate, the catalog as the assignments leave it, and whether the
\* returned dict is the catalog's.
CalculateResources(analysis, pattern_key, patterns) ==
    LET pattern == patterns[pattern_key]
        shared == "resources" \in DOMAIN pattern
        base_resources == Get(pattern, "resources", DefaultResources)
        sized ==
            IF Get(analysis, "size", 0) > SizeThreshold
            THEN [base_resources EXCEPT !.requests.memory = Q(256, "Mi"),
                                        !.limits.memory = Q(1, "Gi")]
            ELSE base_resources
        result ==
            IF Len(Get(Get(analysis, "dependencies", <<>>),
                       "dependencies", <<>>)) > DepsThreshold
            THEN [sized EXCEPT !.requests.cpu = Q(200, "m"),
                               !.limits.cpu = Q(1000, "m")]
            ELSE sized
    IN  [value |-> result,
         shared |-> shared,
         patterns |-> IF shared
                      THEN [patterns EXCEPT ![pattern_key].resources = result]
                      ELSE patterns]

\* generate_deployment_config.  The entries of the config dict are
\* evaluated in the order written, so a raise in _generate_dockerfile
\* comes before _calculate_resources runs.
GenerateDeploymentConfig(analysis, namespace, deployment_type, patterns) ==
    LET app_type == analysis.application_type
        app_name == AppName(analysis.repository)
        pattern_key == PatternKey(app_type, patterns)
        pattern == patterns[pattern_key]
        generated == GenerateDockerfile(analysis, pattern)
        dockerfile ==
            IF ~analysis.docker_analysis.has_dockerfile
            THEN (IF generated.raised THEN generated
                  ELSE Return(Some(generated.value)))
            ELSE Return(None)
        resources == CalculateResources(analysis, pattern_key, patterns)
    IN  IF dockerfile.raised
        THEN [outcome |-> dockerfile, shared |-> FALSE, patterns |-> patterns]
        ELSE [outcome |->
                Return([app_name |-> app_name,
                        namespace |-> namespace,
                        application_type |-> app_type,
                        deployment |-> GenerateDeploymentYaml(
                                           analysis, pattern, app_name, namespace),
                        service |-> GenerateServiceYaml(app_name, namespace, pattern),
                        route |-> GenerateRouteYaml(app_name, namespace),
                        dockerfile |-> dockerfile.value,
                        github_actions |-> GenerateGithubActions(
                                               analysis, app_name, namespace),
                        resources_needed |-> resources.value]),
              shared |-> resources.shared,
              patterns |-> resources.patterns]

(***************************************************************************)
(* analyze_repository's sub-steps.  The outcome of one collaborator read   *)
(* is None when the read raises and Some(content) when it returns.         *)
(***************************************************************************)
\* one entry of the log of collaborator operations: the operation, the
\* path it was asked for, and whether it returned
Call(op, path, ok) == [op |-> op, path |-> path, ok |-> ok]

\* repo.get_contents(name, ref=branch) followed by .decoded_content.decode()
ReadFile(files, name) ==
    IF files[name] = None THEN Raise("UnknownObjectException")
    ELSE Return(files[name][1])

RECURSIVE Strip(_)
\* str.strip()
Strip(s) ==
    IF s = <<>> THEN s
    ELSE IF Head(s) = " " THEN Strip(Tail(s))
    ELSE IF s[Len(s)] = " " THEN Strip(SubSeq(s, 1, Len(s) - 1))
    ELSE s

RECURSIVE Before(_, _)
\* s.split(sep)[0]: the text before the first occurrence of sep
Before(s, sep) ==
    IF Len(s) < Len(sep) THEN s
    ELSE IF SubSeq(s, 1, Len(sep)) = sep THEN <<>>
    ELSE <<Head(s)>> \o Before(Tail(s), sep)

\* s.startswith(prefix)
StartsWith(s, prefix) ==
    Len(s) >= Len(prefix) /\ SubSeq(s, 1, Len(prefix)) = prefix

\* [f(x) for x in xs if keep(x)] for the requirements lines
RECURSIVE RequirementNames(_)
RequirementNames(deps) ==
    IF deps = <<>> THEN <<>>
    ELSE (IF Strip(Head(deps)) # <<>>
          THEN <<Strip(Before(Head(deps), <<"=", "=">>))>> ELSE <<>>)
         \o RequirementNames(Tail(deps))

\* the dict _analyze_dependencies starts from
NoDependencies ==
    [package_managers |-> <<>>, dependencies |-> <<>>,
     dev_dependencies |-> <<>>, security_vulnerabilities |-> <<>>]

\* the second candidate of a marker-file strategy: try it, record its tag
SecondCandidate(files, name, tag, calls) ==
    LET read == ReadFile(files, name)
    IN  [value |-> IF read.raised THEN NoDependencies
                   ELSE [NoDependencies EXCEPT !.package_managers = <<tag>>],
         calls |-> Append(calls, Call("get_contents", name, ~read.raised))]

\* _analyze_dependencies.  `files` gives the outcome of each manifest read.
\* package.json content is [valid, json]: whether json.loads accepts it and
\* the object it yields.  Returns the profile and the reads made.
AnalyzeDependencies(files, branch, app_type) ==
    LET first(name) == ReadFile(files, name)
        log(name) == <<Call("get_contents", name, ~first(name).raised)>>
    IN  IF app_type \in {"node_js", "react"}
        THEN LET read == first(PackageJsonPath)
             IN  Return(
                   [value |->
                      IF read.raised \/ ~read.value.valid THEN NoDependencies
                      ELSE [NoDependencies EXCEPT
                              !.dependencies =
                                  Get(read.value.json, "dependencies", <<>>),
                              !.dev_dependencies =
                                  Get(read.value.json, "devDependencies", <<>>),
                              !.package_managers = <<"npm">>],
                    calls |-> log(PackageJsonPath)])
        ELSE IF app_type \in {"python_flask", "python_django", "machine_learning"}
        THEN LET read == first(RequirementsTxtPath)
             IN  Return(
                   IF read.raised
                   THEN SecondCandidate(files, PipfilePath, "pipenv",
                                        log(RequirementsTxtPath))
                   ELSE [value |->
                           [NoDependencies EXCEPT
                              !.dependencies =
                                  RequirementNames(SplitSep(read.value, "\n")),
                              !.package_managers = <<"pip">>],
                         calls |-> log(RequirementsTxtPath)])
        ELSE IF app_type = "java_spring"
        THEN Return(
               IF first(PomXmlPath).raised
               THEN SecondCandidate(files, BuildGradlePath, "gradle",
                                    log(PomXmlPath))
               ELSE [value |-> [NoDependencies EXCEPT
                                  !.package_managers = <<"maven">>],
                     calls |-> log(PomXmlPath)])
        ELSE IF app_type = "go"
        THEN Return(
               [value |-> IF first(GoModPath).raised THEN NoDependencies
                          ELSE [NoDependencies EXCEPT
                                  !.package_managers = <<"go-modules">>],
                calls |-> log(GoModPath)])
        ELSE Return([value |-> NoDependencies, calls |-> <<>>])

\* readme.decoded_content.decode()[:1000]
ReadmeLimit == 1000

\* s[:n]
Truncate(s, n) == SubSeq(s, 1, IF Len(s) < n THEN Len(s) ELSE n)

SetupWords ==
    <<<<"i","n","s","t","a","l","l">>, <<"s","e","t","u","p">>,
      <<"r","u","n">>, <<"s","t","a","r","t">>>>

\* the dict _analyze_dockerfile starts from
NoDockerfile ==
    [has_dockerfile |-> FALSE, base_image |-> None, exposed_ports |-> <<>>,
     custom_dockerfile |-> FALSE]

\* the dict _get_documentation starts from
NoDocumentation ==
    [readme |-> None, has_docs |-> FALSE, setup_instructions |-> FALSE]

\* _get_documentation without its try/except
GetDocumentationNoExcept(readme) ==
    IF readme = None THEN Raise("UnknownObjectException")
    ELSE Return(
           [value |-> [readme |-> Some(Truncate(readme[1], ReadmeLimit)),
                       has_docs |-> FALSE,
                       setup_instructions |-> FALSE],
            calls |-> <<Call("get_readme", <<>>, TRUE)>>])

\* _get_documentation; `readme` is the outcome of repo.get_readme()
GetDocumentation(readme) ==
    Return(
      [value |->
         IF readme = None THEN NoDocumentation
         ELSE LET text == Truncate(readme[1], ReadmeLimit)
              IN  [readme |-> Some(text),
                   has_docs |-> FALSE,
                   setup_instructions |->
                       \E i \in 1..Len(SetupWords) :
                           Contains(SetupWords[i], Lower(text))],
       calls |-> <<Call("get_readme", <<>>, readme # None)>>])

\* int(token) for a token without sign or blanks: its value, or ValueError
IsDigit(c) == \E i \in 1..Len(Digits) : Digits[i] = c

DigitValue(c) == (CHOOSE i \in 1..Len(Digits) : Digits[i] = c) - 1

RECURSIVE IntValue(_, _)
IntValue(token, acc) ==
    IF token = <<>> THEN acc
    ELSE IntValue(Tail(token), 10 * acc + DigitValue(Head(token)))

ParseInt(token) ==
    IF token # <<>> /\ \A i \in 1..Len(token) : IsDigit(token[i])
    THEN Return(IntValue(token, 0))
    ELSE Raise("ValueError")

RECURSIVE ScanDockerfile(_, _)
\* the loop over content.split('\n'); it ends at the first line whose
\* second word is missing or is no integer, keeping what it has set
ScanDockerfile(lines, analysis) ==
    IF lines = <<>> THEN analysis
    ELSE
      LET line == Head(lines)
          words == Split(line)
      IN  IF StartsWith(Strip(line), <<"F", "R", "O", "M">>)
          THEN IF Len(words) < 2 THEN analysis
               ELSE ScanDockerfile(Tail(lines),
                        [analysis EXCEPT !.base_image = Some(words[2])])
          ELSE IF StartsWith(Strip(line), <<"E", "X", "P", "O", "S", "E">>)
          THEN IF Len(words) < 2 \/ ParseInt(words[2]).raised THEN analysis
               ELSE ScanDockerfile(Tail(lines),
                        [analysis EXCEPT !.exposed_ports =
                            Append(@, ParseInt(words[2]).value)])
          ELSE ScanDockerfile(Tail(lines), analysis)

\* _analyze_dockerfile; `dockerfile` is the outcome of reading "Dockerfile"
AnalyzeDockerfile(dockerfile, branch) ==
    Return(
      [value |->
         IF dockerfile = None THEN NoDockerfile
         ELSE ScanDockerfile(SplitSep(dockerfile[1], "\n"),
                             [NoDockerfile EXCEPT !.has_dockerfile = TRUE,
                                                  !.custom_dockerfile = TRUE]),
       calls |-> <<Call("get_contents", DockerfilePath, dockerfile # None)>>])

\* _generate_recommendations
GenerateRecommendations(analysis) ==
    (IF ~analysis.docker_analysis.has_dockerfile
     THEN <<"Consider adding a Dockerfile for consistent deployments">>
     ELSE <<>>)
    \o (IF ~analysis.documentation.setup_instructions
        THEN <<"Add setup instructions to README for better maintainability">>
        ELSE <<>>)
    \o (IF analysis.application_type = "generic"
        THEN <<"Could not detect application type - manual configuration may be needed">>
        ELSE <<>>)
    \o (IF Len(analysis.dependencies.dependencies) > 100
        THEN <<"Large number of dependencies detected - consider optimization">>
        ELSE <<>>)
    \o (IF analysis.application_type = "machine_learning"
        THEN <<"ML workload detected - consider GPU resources for training">>
        ELSE <<>>)

\* the operations deploy_application performs, in order.  _ensure_namespace
\* and _apply_kubernetes_resource have empty bodies here; what an
\* implementation of them does to the cluster can raise, which fail_at draws.
DeploySteps == <<"ensure_namespace", "apply_deployment", "apply_service",
                 "apply_route">>

\* deploy_application without its try/except
DeployApplicationNoExcept(config, fail_at) ==
    IF fail_at # 0 THEN Raise(DeploySteps[fail_at])
    ELSE Return(
           [value |-> [status |-> "deployed",
                       app_name |-> config.app_name,
                       namespace |-> config.namespace,
                       deployment |-> None, service |-> None, route |-> None,
                       url |-> [host |-> config.app_name,
                                namespace |-> config.namespace,
                                domain |-> "apps.your-cluster.com"]],
            calls |-> [i \in 1..Len(DeploySteps) |->
                          Call(DeploySteps[i], <<>>, TRUE)]])

\* deploy_application.  fail_at is the index in DeploySteps of the operation
\* that raises, 0 when none does.
DeployApplication(config, fail_at) ==
    Return(
      [value |->
         IF fail_at = 0
         THEN [status |-> "deployed",
               app_name |-> config.app_name,
               namespace |-> config.namespace,
               deployment |-> None,
               service |-> None,
               route |-> None,
               url |-> [host |-> config.app_name,
                        namespace |-> config.namespace,
                        domain |-> "apps.your-cluster.com"]]
         ELSE [status |-> "failed", error |-> DeploySteps[fail_at]],
       calls |->
         [i \in 1..(IF fail_at = 0 THEN Len(DeploySteps) ELSE fail_at) |->
             Call(DeploySteps[i], <<>>, i # fail_at)]])

\* no predict call has been made
PredictIdle ==
    /\ pc = "idle"
    /\ request_data = <<>>
    /\ analysis_result = None
    /\ deployment_config = None
    /\ invoked = <<>>
    /\ response = None

(***************************************************************************)
(* SpecClassify: _detect_application_type applied to the file structure    *)
(* _analyze_file_structure builds for a drawn repository.                  *)
(***************************************************************************)
InitClassify ==
    /\ deployment_patterns = LoadDeploymentPatterns
    /\ github_client = "Github"
    /\ \E repo \in ClassifyRepos :
          /\ remote_repo = repo
          /\ file_structure =
                 AnalyzeFileStructure(repo.listing[<<>>], repo, "main",
                                      max_depth, 0).structure
    /\ detected = "pending"
    /\ synth_calls = <<>>
    /\ PredictIdle

Detect ==
    /\ detected = "pending"
    /\ detected' = DetectApplicationType(file_structure)
    /\ UNCHANGED <<deployment_patterns, github_client, remote_repo,
                   file_structure, synth_calls>>
    /\ UNCHANGED predictVars

NextClassify == Detect

SpecClassify == InitClassify /\ [][NextClassify]_vars

(***************************************************************************)
(* SpecTree: _analyze_file_structure walking a drawn repository, then      *)
(* _detect_application_type on the structure it built.                     *)
(***************************************************************************)
InitTree ==
    /\ deployment_patterns = LoadDeploymentPatterns
    /\ github_client = "Github"
    /\ remote_repo \in TreeRepos
    /\ file_structure = None
    /\ detected = "pending"
    /\ synth_calls = <<>>
    /\ PredictIdle

\* _analyze_file_structure(contents, repo, branch) on the root listing
WalkTree ==
    /\ file_structure = None
    /\ LET walk == AnalyzeFileStructure(remote_repo.listing[<<>>], remote_repo,
                                        "main", max_depth, 0)
       IN  /\ file_structure' = walk.structure
           /\ invoked' =
                 [i \in 1..Len(walk.fetched) |->
                     Call("get_contents", walk.fetched[i],
                          walk.fetched[i] \notin remote_repo.inaccessible)]
    /\ UNCHANGED <<deployment_patterns, github_client, remote_repo, detected,
                   synth_calls, pc, request_data, analysis_result,
                   deployment_config, response>>

\* _detect_application_type on the structure the walk returned
DetectWalked == file_structure # None /\ Detect

NextTree == WalkTree \/ DetectWalked

SpecTree == InitTree /\ [][NextTree]_vars
(***************************************************************************)
(* SpecSynth: generate_deployment_config called again and again on one     *)
(* model instance, with AnalysisResults drawn from SynthAnalyses.          *)
(***************************************************************************)
\* "octo/My_App"
SampleRepository == <<"o","c","t","o","/","M","y","_","A","p","p">>

\* n dependency names; a name is held as its position in the manifest
DepNames(n) == [i \in 1..n |-> i]

OwnDockerfile ==
    [has_dockerfile |-> TRUE, base_image |-> Some(<<"a", "l", "p", "i", "n", "e">>),
     exposed_ports |-> <<8080>>, custom_dockerfile |-> TRUE]

EmptyStructure == [files |-> <<>>, directories |-> <<>>, key_files |-> <<>>]

ApplicationTypes == DOMAIN LoadDeploymentPatterns \cup {"generic"}

\* the AnalysisResult with the given archetype, build-recipe analysis,
\* repository size and number of dependencies
Analysis(app_type, docker, size, n) ==
    [repository |-> SampleRepository,
     branch |-> "main",
     application_type |-> app_type,
     file_structure |-> EmptyStructure,
     dependencies |-> [package_managers |-> <<>>,
                       dependencies |-> DepNames(n),
                       dev_dependencies |-> <<>>,
                       security_vulnerabilities |-> <<>>],
     documentation |-> [readme |-> None, has_docs |-> FALSE,
                        setup_instructions |-> FALSE],
     docker_analysis |-> docker,
     size |-> size,
     language |-> None,
     topics |-> <<>>]

\* the arguments of one generate_deployment_config call, the AnalysisResult
\* named by the four values that Analysis builds it from
SynthArgs ==
    [app_type : ApplicationTypes,
     docker : {NoDockerfile, OwnDockerfile},
     size : {0, SizeThreshold, SizeThreshold + 1},
     n : {DepsThreshold, DepsThreshold + 1},
     namespace : {"default"},
     deployment_type : {"auto"}]

AnalysisOf(args) == Analysis(args.app_type, args.docker, args.size, args.n)

InitSynth ==
    /\ deployment_patterns = LoadDeploymentPatterns
    /\ github_client = "Github"
    /\ remote_repo = FlatRepo(<<>>)
    /\ file_structure = EmptyStructure
    /\ detected = "pending"
    /\ synth_calls = <<>>
    /\ PredictIdle

\* one call of generate_deployment_config on the instance
CallGenerate(args) ==
    LET r == GenerateDeploymentConfig(AnalysisOf(args), args.namespace,
                                      args.deployment_type,
                                      deployment_patterns)
        call == [args |-> args, outcome |-> r.outcome, shared |-> r.shared]
    IN  /\ deployment_patterns' = r.patterns
        /\ synth_calls' =
              IF synth_calls # <<>> /\ synth_calls[Len(synth_calls)].args = args
              THEN <<synth_calls[Len(synth_calls)], call>>
              ELSE <<call>>
        /\ UNCHANGED <<github_client, remote_repo, file_structure, detected>>
        /\ UNCHANGED predictVars

NextSynth == \E args \in SynthArgs : CallGenerate(args)

SpecSynth == InitSynth /\ [][NextSynth]_vars
(***************************************************************************)
(* Spec: predict calls served one after another by one model instance.     *)
(* Every await in predict is on a coroutine that runs to completion        *)
(* without yielding, so calls do not interleave; the steps below are the   *)
(* stretches of one call between collaborator operations, whose outcomes   *)
(* are drawn at each step.                                                 *)
(***************************************************************************)
\* "https://github.com/octo/My_App.git"
RepositoryUrl ==
    <<"h","t","t","p","s",":","/","/","g","i","t","h","u","b",".","c","o","m","/","o","c","t","o","/","M","y","_","A","p","p",".","g","i","t">>

\* "https://github.com/"
GithubPrefix == <<"h","t","t","p","s",":","/","/","g","i","t","h","u","b",".","c","o","m","/">>

\* ".git"
GitSuffix == <<".","g","i","t">>

\* payloads: {}, an empty repository_url, the url alone, with immediate
\* deployment, and with every optional field given
Requests ==
    {<<>>,
     [repository_url |-> <<>>],
     [repository_url |-> RepositoryUrl],
     [repository_url |-> RepositoryUrl, deploy_immediately |-> TRUE],
     [repository_url |-> RepositoryUrl, branch |-> "dev",
      namespace |-> "prod", deployment_type |-> "deployment",
      deploy_immediately |-> FALSE]}

\* request_data.get(key): None when the key is absent
GetOpt(d, key) == IF key \in DOMAIN d THEN Some(d[key]) ELSE None

\* `repository_url is None` in place of `not repository_url`
RepositoryUrlIsNone(repository_url) == repository_url = None

\* `not repository_url`: None and '' are both false
RepositoryUrlMissing(repository_url) ==
    repository_url = None \/ repository_url = Some(<<>>)

\* predict without its except clause: the exception leaves predict
PredictExceptMissing(e) == [status |-> "raised", exception |-> e]

\* the except clause of predict
PredictExcept(e) ==
    [status |-> "error", error |-> e,
     recommendations |-> <<"Check repository URL and permissions">>]

\* the except clause of analyze_repository: log and re-raise
AnalyzeRepositoryExcept(e) == e

\* the return statement of predict
PredictReturn(analysis, config) ==
    [status |-> "success",
     analysis |-> analysis,
     deployment_config |-> config,
     recommendations |-> GenerateRecommendations(analysis)]

\* the values predict reads from its payload
Branch == Get(request_data, "branch", "main")
Namespace == Get(request_data, "namespace", "default")
DeploymentType == Get(request_data, "deployment_type", "auto")
DeployImmediately == Get(request_data, "deploy_immediately", FALSE)

\* predict ends: its locals go out of scope
Finish(result) ==
    /\ response' = result
    /\ pc' = "done"
    /\ analysis_result' = None
    /\ deployment_config' = None

\* predict, lines 112-119
PredictBegin(payload) ==
    /\ pc \in {"idle", "done"}
    /\ request_data' = payload
    /\ invoked' = <<>>
    /\ IF RepositoryUrlMissing(GetOpt(payload, "repository_url"))
       THEN Finish(PredictExcept("repository_url is required"))
       ELSE /\ pc' = "get_repo"
            /\ response' = None
            /\ analysis_result' = None
            /\ deployment_config' = None
    /\ UNCHANGED <<deployment_patterns, github_client>>
    /\ UNCHANGED synthVars
    /\ UNCHANGED remote_repo

\* analyze_repository, lines 153-155
GetRepo ==
    /\ pc = "get_repo"
    /\ LET repo_path == Replace(Replace(request_data.repository_url,
                                        GithubPrefix, <<>>),
                                GitSuffix, <<>>)
       IN  IF github_client = "None"
           THEN /\ Finish(PredictExcept(AnalyzeRepositoryExcept("AttributeError")))
                /\ UNCHANGED invoked
           ELSE \E ok \in BOOLEAN :
                  /\ invoked' = Append(invoked, Call("get_repo", repo_path, ok))
                  /\ IF ok
                     THEN /\ analysis_result' = [repository |-> repo_path,
                                                 branch |-> Branch]
                          /\ pc' = "list_root"
                          /\ UNCHANGED <<response, deployment_config>>
                     ELSE Finish(PredictExcept(
                              AnalyzeRepositoryExcept("get_repo failed")))
    /\ UNCHANGED <<deployment_patterns, github_client, request_data>>
    /\ UNCHANGED synthVars
    /\ UNCHANGED remote_repo

\* the repositories a predict call may meet
PredictRepos ==
    {FlatRepo(<<>>),
     FlatRepo(<<PackageJsonPath, ServerJs>>),
     FlatRepo(<<RequirementsTxtPath, ManagePy>>),
     FlatRepo(<<RequirementsTxtPath, ModelPklUpper>>),
     FlatRepo(<<GoModPath, MainGo>>),
     NestedRepo(<<PomXmlPath>>, <<AppPy>>, FALSE),
     NestedRepo(<<PomXmlPath>>, <<AppPy>>, TRUE)}

\* analyze_repository, lines 158-162: the root listing, the tree walk and
\* the classification
ListRoot ==
    /\ pc = "list_root"
    /\ \/ /\ invoked' = Append(invoked, Call("get_contents", <<>>, FALSE))
          /\ Finish(PredictExcept(
                 AnalyzeRepositoryExcept("get_contents failed")))
       \/ \E repo \in PredictRepos :
            LET walk == AnalyzeFileStructure(repo.listing[<<>>], repo, Branch,
                                             max_depth, 0)
            IN  /\ invoked' =
                      Append(invoked, Call("get_contents", <<>>, TRUE))
                      \o [i \in 1..Len(walk.fetched) |->
                            Call("get_contents", walk.fetched[i],
                                 walk.fetched[i] \notin repo.inaccessible)]
                /\ analysis_result' =
                      analysis_result @@
                      [file_structure |-> walk.structure,
                       application_type |->
                           DetectApplicationType(walk.structure)]
                /\ pc' = "dependencies"
                /\ UNCHANGED <<response, deployment_config>>
    /\ UNCHANGED <<deployment_patterns, github_client, request_data>>
    /\ UNCHANGED synthVars
    /\ UNCHANGED remote_repo

\* every manifest read raising
NoFiles ==
    [name \in {PackageJsonPath, RequirementsTxtPath, PipfilePath, PomXmlPath,
               BuildGradlePath, GoModPath} |-> None]

With(files, name, content) == [files EXCEPT ![name] = Some(content)]

\* package.json contents: not JSON, and an object with n dependencies
BadJson == [valid |-> FALSE, json |-> <<>>]
PackageJson(n) ==
    [valid |-> TRUE,
     json |-> [dependencies |-> DepNames(n), devDependencies |-> DepNames(1)]]

\* "flask==2.0\n\n requests \n"
SmallRequirements ==
    <<"f","l","a","s","k","=","=","2",".","0","\n","\n"," ","r","e","q","u","e","s","t","s"," ","\n">>

\* what the manifest reads of _analyze_dependencies may meet for an archetype
ManifestWorlds(app_type) ==
    IF app_type \in {"node_js", "react"}
    THEN {NoFiles, With(NoFiles, PackageJsonPath, BadJson),
          With(NoFiles, PackageJsonPath, PackageJson(1)),
          With(NoFiles, PackageJsonPath, PackageJson(DepsThreshold + 1))}
    ELSE IF app_type \in {"python_flask", "python_django", "machine_learning"}
    THEN {NoFiles, With(NoFiles, PipfilePath, <<>>),
          With(NoFiles, RequirementsTxtPath, SmallRequirements)}
    ELSE IF app_type = "java_spring"
    THEN {NoFiles, With(NoFiles, BuildGradlePath, <<>>),
          With(NoFiles, PomXmlPath, <<>>)}
    ELSE IF app_type = "go"
    THEN {NoFiles, With(NoFiles, GoModPath, <<>>)}
    ELSE {NoFiles}

\* a sub-step of analyze_repository that raised, or returned `field`
SubStep(result, field, next) ==
    IF result.raised
    THEN /\ Finish(PredictExcept(AnalyzeRepositoryExcept(result.error)))
         /\ UNCHANGED invoked
    ELSE /\ analysis_result' = analysis_result @@ (field :> result.value.value)
         /\ invoked' = invoked \o result.value.calls
         /\ pc' = next
         /\ UNCHANGED <<response, deployment_config>>

\* analyze_repository, line 165
Dependencies ==
    /\ pc = "dependencies"
    /\ \E files \in ManifestWorlds(analysis_result.application_type) :
          SubStep(AnalyzeDependencies(files, Branch,
                                      analysis_result.application_type),
                  "dependencies", "documentation")
    /\ UNCHANGED <<deployment_patterns, github_client, request_data>>
    /\ UNCHANGED synthVars
    /\ UNCHANGED remote_repo

\* README outcomes: none, "Run it", "hello"
Readmes ==
    {None, Some(<<"R","u","n"," ","i","t">>), Some(<<"h","e","l","l","o">>)}

\* analyze_repository, line 168
Documentation ==
    /\ pc = "documentation"
    /\ \E readme \in Readmes :
          SubStep(GetDocumentation(readme), "documentation", "dockerfile")
    /\ UNCHANGED <<deployment_patterns, github_client, request_data>>
    /\ UNCHANGED synthVars
    /\ UNCHANGED remote_repo

\* Dockerfile outcomes: none, "FROM node:18\nEXPOSE 8080", "FROM x\nEXPOSE http"
Dockerfiles ==
    {None,
     Some(<<"F","R","O","M"," ","n","o","d","e",":","1","8","\n","E","X","P","O","S","E"," ","8","0","8","0">>),
     Some(<<"F","R","O","M"," ","x","\n","E","X","P","O","S","E"," ","h","t","t","p">>)}

\* analyze_repository, line 171
DockerAnalysis ==
    /\ pc = "dockerfile"
    /\ \E dockerfile \in Dockerfiles :
          SubStep(AnalyzeDockerfile(dockerfile, Branch), "docker_analysis",
                  "metadata")
    /\ UNCHANGED <<deployment_patterns, github_client, request_data>>
    /\ UNCHANGED synthVars
    /\ UNCHANGED remote_repo

\* analyze_repository, lines 173-184: repo.size, repo.language and
\* repo.get_topics(), then the AnalysisResult
Metadata ==
    /\ pc = "metadata"
    /\ \E size \in {0, SizeThreshold + 1}, ok \in BOOLEAN :
          /\ invoked' = Append(invoked, Call("get_topics", <<>>, ok))
          /\ IF ok
             THEN /\ analysis_result' =
                        analysis_result @@
                        [size |-> size, language |-> None, topics |-> <<>>]
                  /\ pc' = "synthesize"
                  /\ UNCHANGED <<response, deployment_config>>
             ELSE Finish(PredictExcept(
                      AnalyzeRepositoryExcept("get_topics failed")))
    /\ UNCHANGED <<deployment_patterns, github_client, request_data>>
    /\ UNCHANGED synthVars
    /\ UNCHANGED remote_repo

\* predict, lines 125-140 when deploy_immediately is false, 125-131 when true
Synthesize ==
    /\ pc = "synthesize"
    /\ LET r == GenerateDeploymentConfig(analysis_result, Namespace,
                                         DeploymentType, deployment_patterns)
       IN  /\ deployment_patterns' = r.patterns
           /\ IF r.outcome.raised
              THEN Finish(PredictExcept(r.outcome.error))
              ELSE IF DeployImmediately
              THEN /\ deployment_config' = r.outcome.value
                   /\ pc' = "deploy"
                   /\ UNCHANGED <<response, analysis_result>>
              ELSE Finish(PredictReturn(analysis_result, r.outcome.value))
    /\ UNCHANGED <<github_client, request_data, invoked>>
    /\ UNCHANGED synthVars
    /\ UNCHANGED remote_repo

\* predict, lines 132-140: deploy_application, with the operation that
\* raises (if any) drawn
Deploy ==
    /\ pc = "deploy"
    /\ \E fail_at \in 0..Len(DeploySteps) :
          LET r == DeployApplication(deployment_config, fail_at)
          IN  IF r.raised
              THEN /\ Finish(PredictExcept(r.error))
                   /\ UNCHANGED invoked
              ELSE /\ invoked' = invoked \o r.value.calls
                   /\ Finish(PredictReturn(
                          analysis_result,
                          deployment_config @@
                            [deployment_result |-> r.value.value]))
    /\ UNCHANGED <<deployment_patterns, github_client, request_data>>
    /\ UNCHANGED synthVars
    /\ UNCHANGED remote_repo

\* setup_clients leaves github_client None when GITHUB_TOKEN is unset or its
\* try block raises, which it does at its first line where the module has
\* no name `os`; it is a Github client otherwise
Init ==
    /\ deployment_patterns = LoadDeploymentPatterns
    /\ github_client \in {"None", "Github"}
    /\ remote_repo = FlatRepo(<<>>)
    /\ file_structure = EmptyStructure
    /\ detected = "pending"
    /\ synth_calls = <<>>
    /\ PredictIdle

Next ==
    \/ \E payload \in Requests : PredictBegin(payload)
    \/ GetRepo
    \/ ListRoot
    \/ Dependencies
    \/ Documentation
    \/ DockerAnalysis
    \/ Metadata
    \/ Synthesize
    \/ Deploy

Spec == Init /\ [][Next]_vars

(***************************************************************************)
(* Properties of synthesis, checked under SpecSynth.                       *)
(***************************************************************************)
LastSynth == synth_calls[Len(synth_calls)]

\* the profile the archetype starts from: the one the literal table
\* declares for it, or the default
StartingProfile(app_type) ==
    Get(LoadDeploymentPatterns[PatternKey(app_type, LoadDeploymentPatterns)],
        "resources", DefaultResources)

AtLeast(estimate, base) ==
    /\ Amount(estimate.requests.cpu) >= Amount(base.requests.cpu)
    /\ Amount(estimate.limits.cpu) >= Amount(base.limits.cpu)
    /\ Amount(estimate.requests.memory) >= Amount(base.requests.memory)
    /\ Amount(estimate.limits.memory) >= Amount(base.limits.memory)

\* C1: every field of the resource estimate a call returns is at least the
\* same field of the starting profile of the archetype it was sized for.
C1_EscalationNeverLowers ==
    (synth_calls # <<>> /\ ~LastSynth.outcome.raised) =>
        AtLeast(LastSynth.outcome.value.resources_needed,
                StartingProfile(LastSynth.args.app_type))

\* C2: what a call returns is what the same call returns on an instance
\* that has served no request before.
C2_RequestIsolation ==
    synth_calls # <<>> =>
        LastSynth.outcome =
            GenerateDeploymentConfig(AnalysisOf(LastSynth.args),
                                     LastSynth.args.namespace,
                                     LastSynth.args.deployment_type,
                                     LoadDeploymentPatterns).outcome

\* C3: generate_deployment_config returns a DeploymentConfig for every
\* archetype id, in or out of the catalog, with or without a Dockerfile.
C3_SynthesisTotal ==
    synth_calls # <<>> => ~LastSynth.outcome.raised

\* C5: the archetype ids in a generated DeploymentConfig (application_type
\* and the workload manifest's app-type label) are ids of the catalog.
C5_ArchetypeDefined ==
    (synth_calls # <<>> /\ ~LastSynth.outcome.raised) =>
        LET config == LastSynth.outcome.value
        IN  /\ config.application_type \in DOMAIN deployment_patterns
            /\ config.deployment.metadata.labels.app_type
                   \in DOMAIN deployment_patterns

\* what the caller of `call` holds now: a resources_needed that is the
\* catalog's own dict shows the catalog's present values
Held(call) ==
    IF call.outcome.raised \/ ~call.shared THEN call.outcome
    ELSE Return([call.outcome.value EXCEPT
                   !.resources_needed =
                       deployment_patterns[
                           PatternKey(call.args.app_type, deployment_patterns)
                       ].resources])

\* C10: two calls in a row with the same arguments end the same way, and
\* the two DeploymentConfigs are equal in every field, both as returned and
\* as the caller holds them afterwards.
C10_SynthesisIdempotent ==
    Len(synth_calls) = 2 =>
        /\ synth_calls[1].outcome = synth_calls[2].outcome
        /\ Held(synth_calls[1]) = Held(synth_calls[2])

\* C10 witness: the same oversized machine_learning analysis synthesized
\* twice in a row, the memory rule firing on the catalog's profile each time.
C10_Witness ==
    /\ Len(synth_calls) = 2
    /\ synth_calls[2].args.app_type = "machine_learning"
    /\ synth_calls[2].args.size > SizeThreshold
    /\ ~synth_calls[2].outcome.raised
    /\ synth_calls[2].shared

(***************************************************************************)
(* The classifier against its reference, checked under SpecClassify.       *)
(***************************************************************************)
RECURSIVE NamesIn(_)
\* the file names anywhere in a structure
NamesIn(structure) ==
    LET files == Get(structure, "files", <<>>)
        dirs == Get(structure, "directories", <<>>)
    IN  {files[i] : i \in 1..Len(files)}
        \cup UNION {NamesIn(dirs[i].node) : i \in 1..Len(dirs)}

\* the same letter, whatever the case
SameLetter(a, b) ==
    a = b \/ \E i \in 1..Len(UpperCase) : {a, b} = {UpperCase[i], LowerCase[i]}

\* indicator is a case-insensitive substring of name
Occurs(indicator, name) ==
    \E off \in 0..(Len(name) - Len(indicator)) :
        \A k \in 1..Len(indicator) : SameLetter(indicator[k], name[off + k])

\* the number of the archetype's indicators that occur in some name
RefScore(id, names) ==
    LET indicators == LoadDeploymentPatterns[id].indicators
    IN  Cardinality({k \in 1..Len(indicators) :
                        \E name \in names : Occurs(indicators[k], name)})

\* the reference classifier
RefClassify(names) ==
    LET score(i) == RefScore(PatternOrder[i], names)
        best == CHOOSE i \in 1..Len(PatternOrder) :
                    /\ \A j \in 1..Len(PatternOrder) : score(j) <= score(i)
                    /\ \A j \in 1..(i - 1) : score(j) < score(i)
    IN  IF score(best) = 0 THEN "generic" ELSE PatternOrder[best]

\* C4: _detect_application_type returns what the reference classifier
\* returns for the file names of the structure: the archetype with the most
\* indicators occurring, the earliest registered among equals, "generic"
\* when none occurs.
C4_ClassifierMatchesReference ==
    detected # "pending" => detected = RefClassify(NamesIn(file_structure))

\* C4 witness: two archetypes share the largest, nonzero score and the one
\* registered first was returned.
C4_Witness ==
    /\ detected \in DOMAIN LoadDeploymentPatterns
    /\ RefScore(detected, NamesIn(file_structure)) > 0
    /\ \E id \in DOMAIN LoadDeploymentPatterns :
          /\ id # detected
          /\ RefScore(id, NamesIn(file_structure))
                 = RefScore(detected, NamesIn(file_structure))

(***************************************************************************)
(* Properties of predict, checked under Spec.                              *)
(***************************************************************************)
SuccessShape(r) ==
    /\ DOMAIN r = {"status", "analysis", "deployment_config", "recommendations"}
    /\ r.status = "success"

ErrorShape(r) ==
    /\ DOMAIN r = {"status", "error", "recommendations"}
    /\ r.status = "error"

\* C6: every predict call ends by returning the success shape or the error
\* shape, whatever failed on the way.
C6_PredictReturnsAShape ==
    pc = "done" => (SuccessShape(response) \/ ErrorShape(response))

\* C6 witness: a call in which a collaborator operation raised has ended
\* with the error shape.
C6_Witness ==
    /\ pc = "done"
    /\ ErrorShape(response)
    /\ invoked # <<>>
    /\ ~invoked[Len(invoked)].ok

\* the payload of the call in progress has no usable repository_url
NoRepositoryUrl ==
    /\ pc # "idle"
    /\ \/ "repository_url" \notin DOMAIN request_data
       \/ request_data.repository_url = <<>>

\* C7: a call whose payload has no repository_url (absent or empty) is
\* over with the error response, and no collaborator operation was invoked
\* at any point of it.
C7_ValidationBeforeCollaborators ==
    NoRepositoryUrl =>
        /\ pc = "done"
        /\ ErrorShape(response)
        /\ invoked = <<>>

\* C7 witness: a call with an empty repository_url has ended.
C7_Witness ==
    /\ pc = "done"
    /\ "repository_url" \in DOMAIN request_data
    /\ request_data.repository_url = <<>>

ApplyOps == {DeploySteps[i] : i \in 1..Len(DeploySteps)}

\* ensuring the namespace or applying a manifest raised
ApplyFailed ==
    \E i \in 1..Len(invoked) : invoked[i].op \in ApplyOps /\ ~invoked[i].ok

ConfigKeys ==
    {"app_name", "namespace", "application_type", "deployment", "service",
     "route", "dockerfile", "github_actions", "resources_needed"}

\* C8: when an apply operation raised, predict returned success with the
\* analysis and the whole deployment_config, the failure showing only as
\* deployment_result.status = "failed" and never as the error of the
\* response; when deploy_immediately is false
\* no apply operation is invoked and no deployment_result is returned.
C8_DeployFailureEmbedded ==
    /\ ApplyFailed =>
          /\ pc = "done"
          /\ SuccessShape(response)
          /\ ConfigKeys \subseteq DOMAIN response.deployment_config
          /\ "deployment_result" \in DOMAIN response.deployment_config
          /\ response.deployment_config.deployment_result.status = "failed"
    /\ (pc = "done" /\ ErrorShape(response)) => response.error \notin ApplyOps
    /\ ~DeployImmediately =>
          /\ \A i \in 1..Len(invoked) : invoked[i].op \notin ApplyOps
          /\ (pc = "done" /\ SuccessShape(response)) =>
                 DOMAIN response.deployment_config = ConfigKeys

\* C8 witness: applying the service manifest raised and the call has ended.
C8_Witness ==
    /\ pc = "done"
    /\ \E i \in 1..Len(invoked) :
          invoked[i].op = "apply_service" /\ ~invoked[i].ok

ManifestPaths ==
    {PackageJsonPath, RequirementsTxtPath, PipfilePath, PomXmlPath,
     BuildGradlePath, GoModPath}

\* the reads of this call made by each sub-step of analyze_repository
DependencyReads ==
    {i \in 1..Len(invoked) :
        invoked[i].op = "get_contents" /\ invoked[i].path \in ManifestPaths}
DockerfileReads ==
    {i \in 1..Len(invoked) :
        invoked[i].op = "get_contents" /\ invoked[i].path = DockerfilePath}
ReadmeReads == {i \in 1..Len(invoked) : invoked[i].op = "get_readme"}

SomeFailed(reads) == \E i \in reads : ~invoked[i].ok
AllFailed(reads) == \A i \in reads : ~invoked[i].ok

\* the AnalysisResult analyze_repository returned to this call, if it did
Analysed ==
    IF pc \in {"synthesize", "deploy"} THEN Some(analysis_result)
    ELSE IF pc = "done" /\ SuccessShape(response) THEN Some(response.analysis)
    ELSE None

\* the package manager a successful read of a marker file records
ManagerOf(path) ==
    IF path = RequirementsTxtPath THEN <<"pip">>
    ELSE IF path = PipfilePath THEN <<"pipenv">>
    ELSE IF path = PomXmlPath THEN <<"maven">>
    ELSE IF path = BuildGradlePath THEN <<"gradle">>
    ELSE IF path = GoModPath THEN <<"go-modules">>
    ELSE <<"npm">>

\* C9 as stated: whenever a read inside a sub-step raised, the sub-result
\* of that sub-step in the AnalysisResult is its default.
C9_FailedSubResultIsDefault ==
    Analysed # None =>
        LET a == Analysed[1]
        IN  /\ SomeFailed(DependencyReads) => a.dependencies = NoDependencies
            /\ SomeFailed(DockerfileReads) => a.docker_analysis = NoDockerfile
            /\ SomeFailed(ReadmeReads) => a.documentation = NoDocumentation

\* C9 amended: a read that raises inside a sub-step never becomes the error
\* of the call; the dependency profile is the default when every candidate
\* read of the sub-step raised, and records only the manager of the second
\* candidate when the first raised and the second was read; a Dockerfile or
\* README read that raised leaves the default sub-result; the archetype is
\* the classifier's and a sub-step whose read succeeded keeps its result.
C9_SubStepFailuresContained ==
    /\ (pc = "done" /\ ErrorShape(response)) =>
           response.error # "UnknownObjectException"
    /\ Analysed # None =>
        LET a == Analysed[1]
        IN  /\ AllFailed(DependencyReads) => a.dependencies = NoDependencies
            /\ \A i \in DependencyReads :
                  (invoked[i].ok /\ invoked[i].path # PackageJsonPath) =>
                      /\ a.dependencies.package_managers =
                             ManagerOf(invoked[i].path)
                      /\ SomeFailed(DependencyReads) =>
                             a.dependencies.dependencies = <<>>
            /\ SomeFailed(DockerfileReads) => a.docker_analysis = NoDockerfile
            /\ SomeFailed(ReadmeReads) => a.documentation = NoDocumentation
            /\ a.application_type = DetectApplicationType(a.file_structure)
            /\ (DockerfileReads # {} /\ ~SomeFailed(DockerfileReads)) =>
                   a.docker_analysis.has_dockerfile
            /\ (ReadmeReads # {} /\ ~SomeFailed(ReadmeReads)) =>
                   a.documentation.readme # None

\* C9 witness: predict returned success for a repository whose every
\* dependency read and whose README fetch raised, the Dockerfile being read.
C9_Witness ==
    /\ pc = "done"
    /\ SuccessShape(response)
    /\ DependencyReads # {}
    /\ AllFailed(DependencyReads)
    /\ SomeFailed(ReadmeReads)
    /\ response.analysis.docker_analysis.has_dockerfile
    /\ response.analysis.dependencies = NoDependencies

(***************************************************************************)
(* Further properties of synthesis, checked under SpecSynth.               *)
(***************************************************************************)
\* C11: after any sequence of generate_deployment_config calls every entry
\* of deployment_patterns, the machine_learning resource profile included,
\* equals the literal table built at construction.
C11_CatalogNeverMutated == deployment_patterns = LoadDeploymentPatterns

\* the container of a workload manifest
Container(deployment) == deployment.spec.template.spec.containers[1]

\* C12: the resources of the workload manifest's container are the
\* resources_needed of the same DeploymentConfig.
C12_ManifestResourcesAreSized ==
    (synth_calls # <<>> /\ ~LastSynth.outcome.raised) =>
        LET config == LastSynth.outcome.value
        IN  Container(config.deployment).resources = config.resources_needed

\* the decimal text of the ports of the literal table
PortText(port) ==
    CASE port = 80 -> "80"
      [] port = 3000 -> "3000"
      [] port = 5000 -> "5000"
      [] port = 8000 -> "8000"
      [] port = 8080 -> "8080"
      [] OTHER -> "?"

\* C15: in a generated DeploymentConfig the container port, the PORT
\* variable, both probe ports and the service's targetPort are the port of
\* the resolved archetype; the service exposes 80, the route targets port
\* 80 of the service named after the application, and selector, labels
\* and route target carry the one application name.
C15_ManifestsAgree ==
    (synth_calls # <<>> /\ ~LastSynth.outcome.raised) =>
        LET config == LastSynth.outcome.value
            c == Container(config.deployment)
            port == LoadDeploymentPatterns[
                        PatternKey(LastSynth.args.app_type,
                                   LoadDeploymentPatterns)].port
            name == config.app_name
        IN  /\ Len(c.ports) = 1 /\ c.ports[1].containerPort = port
            /\ \E i \in 1..Len(c.env) :
                  c.env[i].name = "PORT" /\ c.env[i].value = PortText(port)
            /\ \A i \in 1..Len(c.env) :
                  c.env[i].name = "PORT" => c.env[i].value = PortText(port)
            /\ c.readinessProbe.httpGet.port = port
            /\ c.livenessProbe.httpGet.port = port
            /\ Len(config.service.spec.ports) = 1
            /\ config.service.spec.ports[1].targetPort = port
            /\ config.service.spec.ports[1].port = 80
            /\ config.route.spec.port.targetPort = 80
            /\ config.route.spec.to.kind = "Service"
            /\ config.route.spec.to.name = name
            /\ config.service.metadata.name = name
            /\ config.service.spec.selector.app = name
            /\ config.deployment.metadata.labels.app = name
            /\ config.deployment.spec.selector.matchLabels.app = name
            /\ config.deployment.spec.template.metadata.labels.app = name
            /\ config.deployment.metadata.namespace = config.namespace
            /\ config.service.metadata.namespace = config.namespace
            /\ config.route.metadata.namespace = config.namespace

\* C15 witness: a DeploymentConfig generated for an id absent from the
\* catalog, resolved to the fallback archetype.
C15_Witness ==
    /\ synth_calls # <<>>
    /\ ~LastSynth.outcome.raised
    /\ LastSynth.args.app_type \notin DOMAIN LoadDeploymentPatterns
    /\ Container(LastSynth.outcome.value.deployment).ports[1].containerPort
           = 3000

(***************************************************************************)
(* Properties of the tree walk, checked under SpecTree.                    *)
(***************************************************************************)
\* the walk of remote_repo has returned
Walked == file_structure # None

ErrorMarker == [error |-> "Cannot access"]

\* names of the file entries of a listing, in listing order
FileNamesOf(entries) ==
    LET files == SelectSeq(entries, LAMBDA e : e.type = "file")
    IN  [i \in 1..Len(files) |-> files[i].name]

DirsOf(entries) == SelectSeq(entries, LAMBDA e : e.type = "dir")

\* the number of directories above the listing at `path`
LevelOf(path) ==
    IF path = <<>> THEN 0
    ELSE 1 + Cardinality({i \in 1..Len(path) : path[i] = "/"})

\* the listing of `path` or of a directory above it fails
Unreachable(path) ==
    \E n \in 1..Len(path) :
        /\ (n = Len(path) \/ path[n + 1] = "/")
        /\ SubSeq(path, 1, n) \in remote_repo.inaccessible

\* the file names the flattened structure holds
FlatNames ==
    LET all_files == GetAllFiles(file_structure, <<>>)
    IN  {all_files[i] : i \in 1..Len(all_files)}

\* file names of the listings at `paths`
NamesAt(paths) ==
    UNION {{n \in FileNames : \E i \in 1..Len(remote_repo.listing[path]) :
                /\ remote_repo.listing[path][i].type = "file"
                /\ remote_repo.listing[path][i].name = n} : path \in paths}

RECURSIVE Recorded(_, _)
\* `node` records the listing at `path`: its files in order; when it holds
\* directories at all, every directory of the listing in order, a failing
\* one as the error marker and the others recorded in their turn
Recorded(node, path) ==
    LET entries == remote_repo.listing[path]
        dirs == DirsOf(entries)
    IN  /\ {"files", "directories"} \subseteq DOMAIN node
        /\ node.files = FileNamesOf(entries)
        /\ node.directories # <<>> =>
              /\ Len(node.directories) = Len(dirs)
              /\ \A i \in 1..Len(dirs) :
                    /\ node.directories[i].name = dirs[i].name
                    /\ IF dirs[i].path \in remote_repo.inaccessible
                       THEN /\ node.directories[i].node = ErrorMarker
                            /\ GetAllFiles(node.directories[i].node, <<>>) = <<>>
                       ELSE Recorded(node.directories[i].node, dirs[i].path)

\* C13: when the listing of a subdirectory fails, its entry is the error
\* marker, every file and every other directory of the parent is recorded
\* whether listed before or after it, the walk returns, and the flattened
\* structure holds no name from below a failed directory.
C13_FailedListingBecomesMarker ==
    Walked =>
        /\ Recorded(file_structure, <<>>)
        /\ Len(file_structure.directories)
               = Len(DirsOf(remote_repo.listing[<<>>]))
        /\ FlatNames \cap
               NamesAt({path \in DOMAIN remote_repo.listing :
                           Unreachable(path)}) = {}
        /\ NamesAt({path \in DOMAIN remote_repo.listing :
                       ~Unreachable(path) /\ LevelOf(path) < max_depth})
               \subseteq FlatNames

\* C13 witness: the root lists the chain directory, whose listing fails,
\* before its file and before the side directory, which is read.
C13_Witness ==
    /\ Walked
    /\ remote_repo.listing[<<>>][1].type = "dir"
    /\ remote_repo.listing[<<>>][1].path \in remote_repo.inaccessible
    /\ remote_repo.listing[<<>>][2].type = "file"
    /\ SideDir \notin remote_repo.inaccessible
    /\ file_structure.directories[1].node = ErrorMarker
    /\ file_structure.directories[2].node.files = <<RequirementsTxtPath>>

RECURSIVE DepthOf(_)
\* the number of directory levels below a node
DepthOf(node) ==
    LET dirs == Get(node, "directories", <<>>)
    IN  IF dirs = <<>> THEN 0
        ELSE 1 + (CHOOSE m \in {DepthOf(dirs[i].node) : i \in 1..Len(dirs)} :
                     \A i \in 1..Len(dirs) : DepthOf(dirs[i].node) <= m)

RECURSIVE MarkersOnlyWhereFailed(_, _)
\* every error marker in the tree stands for a listing that failed
MarkersOnlyWhereFailed(node, path) ==
    LET dirs == Get(node, "directories", <<>>)
    IN  \A i \in 1..Len(dirs) :
           LET below == IF path = <<>> THEN dirs[i].name
                        ELSE path \o <<"/">> \o dirs[i].name
           IN  /\ "error" \in DOMAIN dirs[i].node =>
                      below \in remote_repo.inaccessible
               /\ MarkersOnlyWhereFailed(dirs[i].node, below)

\* C14: the structure built is at most max_depth levels deep, no listing at
\* or beyond the cap is fetched, no file name from at or beyond the cap is
\* in the tree or in the flattened list the classifier reads, and the cap
\* leaves no error marker.
C14_DepthCapped ==
    Walked =>
        /\ DepthOf(file_structure) <= max_depth
        /\ \A i \in 1..Len(invoked) : LevelOf(invoked[i].path) < max_depth
        /\ FlatNames \cap
               NamesAt({path \in DOMAIN remote_repo.listing :
                           LevelOf(path) >= max_depth}) = {}
        /\ NamesIn(file_structure) \cap
               NamesAt({path \in DOMAIN remote_repo.listing :
                           LevelOf(path) >= max_depth}) = {}
        /\ MarkersOnlyWhereFailed(file_structure, <<>>)
        /\ detected # "pending" =>
               detected = RefClassify(
                   NamesAt({path \in DOMAIN remote_repo.listing :
                               ~Unreachable(path) /\ LevelOf(path) < max_depth}))

\* C14 witness: a repository four directories deep, every listing readable,
\* walked and classified.
C14_Witness ==
    /\ Walked
    /\ detected # "pending"
    /\ ChainPath(4) \in DOMAIN remote_repo.listing
    /\ remote_repo.inaccessible = {}
    /\ DepthOf(file_structure) = max_depth - 1

============================================================================
